---------------------------- MODULE Spec2Model ----------------------------
(***************************************************************************)
(* Model of lu.py: the tridiagonal LU factorisation (lutri), the forward   *)
(* and backward substitutions (descente, remontee), the finite-difference  *)
(* assemblers (solve_debye_huckel, solve_poisson_boltzmann,                *)
(* solve_poisson_boltzmann_newton), the outer loops (calcul_uk0,           *)
(* calcul_uk0_newton) and the bisection (find_convergence_mu).             *)
(*                                                                         *)
(* Numbers are exact rationals <<num, den>> (den > 0, lowest terms).       *)
(* Python lists are sequences: Python index i is TLA+ index i + 1.         *)
(* A Python exception ends the call; it is recorded by its class name.     *)
(***************************************************************************)
EXTENDS Integers, Sequences, FiniteSets, TLC

VARIABLES
    prog,     \* which entry point this behaviour runs
    pc,       \* position inside the running call
    err,      \* "none" or the exception class that ended a call
    \* lutri / descente / remontee
    a, b, c, z,   \* the arguments: diagonal, sub-diagonal, super-diagonal, rhs
    l, v, y, x,   \* the results of lutri, descente, remontee
    ops,          \* arithmetic operations performed by the last call
    \* calcul_uk0 / calcul_uk0_newton
    mu,           \* the argument mu
    k,            \* the iteration counter
    u,            \* the iterate: "finite", or "nonfinite" (some entry inf or NaN)
    ecart1,       \* norm(ecart1, inf): "below" mu1, "above" (finite, >= mu1), "nonfinite"
    ecart2,       \* norm(ecart2, inf): "below" mu2, "above" (finite, >= mu2), "nonfinite"
    xBound,       \* whether the local name x has been assigned
    \* find_convergence_mu
    debut, fin, m,   \* the bracket and the last midpoint
    passes,          \* loop passes made so far
    seuil,           \* the oracle: <<TRUE, t>>: k > 200 exactly above t; <<FALSE, 0>>: any
    \* solve_debye_huckel / solve_poisson_boltzmann / solve_poisson_boltzmann_newton
    \* (which also use a, b, c, z, l, v, y and x, the grid, as their locals,
    \* mu as their argument and u as the solution vector they return)
    n,               \* the number of grid points
    F                \* the residual vector of the Newton step

luVars == <<a, b, c, z, l, v, y, x, ops>>
loopVars == <<mu, k, u, ecart1, ecart2, xBound>>
bisectVars == <<debut, fin, m, passes, seuil>>
asmVars == <<n, F>>
vars == <<prog, pc, err, luVars, loopVars, bisectVars, asmVars>>

\* the variables of the entry points a behaviour does not run
LUIdle ==
    /\ a = <<>> /\ b = <<>> /\ c = <<>> /\ z = <<>>
    /\ l = <<>> /\ v = <<>> /\ y = <<>> /\ x = <<>> /\ ops = 0
LoopIdle ==
    /\ mu = 0 /\ k = 0 /\ u = "finite"
    /\ ecart1 = "above" /\ ecart2 = "above" /\ xBound = FALSE
BisectIdle ==
    /\ debut = 0 /\ fin = 0 /\ m = 0
    /\ passes = 0 /\ seuil = <<FALSE, <<0, 1>>>>
AsmIdle == n = 0 /\ F = <<>>

---------------------------------------------------------------------------
(* Exact rational arithmetic, standing for Python's / - * on numbers.      *)

Abs(i) == IF i < 0 THEN -i ELSE i

RECURSIVE Gcd(_, _)
Gcd(p, q) == IF q = 0 THEN p ELSE Gcd(q, p % q)

\* the rational p/q (q # 0) in lowest terms with a positive denominator
Rat(p, q) ==
    LET g == Gcd(Abs(p), Abs(q))
        s == IF q < 0 THEN -1 ELSE 1
    IN  <<(s * p) \div g, (s * q) \div g>>

Num(i) == <<i, 1>>
Zero == Num(0)
IsZero(r) == r[1] = 0

\* over the least common denominator, so that intermediate values stay small
RatAdd(r, s) ==
    LET g == Gcd(r[2], s[2])
    IN  Rat(r[1] * (s[2] \div g) + s[1] * (r[2] \div g), (r[2] \div g) * s[2])
RatNeg(r) == <<-r[1], r[2]>>
RatSub(r, s) == RatAdd(r, RatNeg(s))
\* cross-cancelled so that intermediate products stay small
RatMul(r, s) ==
    LET g1 == Gcd(Abs(r[1]), s[2])
        g2 == Gcd(Abs(s[1]), r[2])
    IN  Rat((r[1] \div g1) * (s[1] \div g2), (r[2] \div g2) * (s[2] \div g1))
\* r / s for s # 0 (Python raises ZeroDivisionError otherwise: see the callers)
RatDiv(r, s) == RatMul(r, Rat(s[2], s[1]))

IntSeq(s) == [i \in 1..Len(s) |-> Num(s[i])]

---------------------------------------------------------------------------
(* lutri(a, b, c), lines 13-27.                                            *)

\* the body of "for i in range(1, n)" from Python index i on
RECURSIVE LutriLoop(_, _, _, _, _, _, _)
LutriLoop(aa, bb, cc, i, ll, vv, cnt) ==
    IF i > Len(aa) - 1
    THEN [err |-> "none", l |-> ll, v |-> vv, ops |-> cnt]
    ELSE IF i > Len(bb)                     \* b[i - 1]
    THEN [err |-> "IndexError", l |-> <<>>, v |-> <<>>, ops |-> cnt]
    ELSE IF IsZero(vv[i])                   \* b[i - 1] / v[i - 1]
    THEN [err |-> "ZeroDivisionError", l |-> <<>>, v |-> <<>>, ops |-> cnt]
    ELSE IF i > Len(cc)                     \* c[i - 1], after l.append
    THEN [err |-> "IndexError", l |-> <<>>, v |-> <<>>, ops |-> cnt + 1]
    ELSE LET li == RatDiv(bb[i], vv[i])
             vi == RatSub(aa[i + 1], RatMul(li, cc[i]))
         IN  LutriLoop(aa, bb, cc, i + 1, Append(ll, li), Append(vv, vi), cnt + 3)

\* lutri with the sub- and super-diagonal taken for one another
LutriSwapped(aa, bb, cc) ==
    IF Len(aa) = 0
    THEN [err |-> "IndexError", l |-> <<>>, v |-> <<>>, ops |-> 0]
    ELSE LutriLoop(aa, cc, bb, 1, <<>>, <<aa[1]>>, 0)

Lutri(aa, bb, cc) ==
    IF Len(aa) = 0                          \* a[0]
    THEN [err |-> "IndexError", l |-> <<>>, v |-> <<>>, ops |-> 0]
    ELSE LutriLoop(aa, bb, cc, 1, <<>>, <<aa[1]>>, 0)

(* descente(l, z), lines 30-42.                                            *)

RECURSIVE DescenteLoop(_, _, _, _, _)
DescenteLoop(ll, zz, i, yy, cnt) ==
    IF i > Len(zz) - 1
    THEN [err |-> "none", y |-> yy, ops |-> cnt]
    ELSE IF i > Len(ll)                     \* l[i - 1]
    THEN [err |-> "IndexError", y |-> <<>>, ops |-> cnt]
    ELSE DescenteLoop(ll, zz, i + 1,
                      Append(yy, RatSub(zz[i + 1], RatMul(ll[i], yy[i]))), cnt + 2)

Descente(ll, zz) ==
    IF Len(zz) = 0                          \* z[0]
    THEN [err |-> "IndexError", y |-> <<>>, ops |-> 0]
    ELSE DescenteLoop(ll, zz, 1, <<zz[1]>>, 0)

(* remontee(v, c, y), lines 45-58.                                         *)

\* the body of "for i in range(n - 2, -1, -1)" from Python index i down
RECURSIVE RemonteeLoop(_, _, _, _, _, _)
RemonteeLoop(vv, cc, yy, i, xx, cnt) ==
    IF i < 0
    THEN [err |-> "none", x |-> xx, ops |-> cnt]
    ELSE IF i + 1 > Len(cc)                 \* c[i]
    THEN [err |-> "IndexError", x |-> <<>>, ops |-> cnt]
    ELSE IF IsZero(vv[i + 1])               \* (...) / v[i]
    THEN [err |-> "ZeroDivisionError", x |-> <<>>, ops |-> cnt + 2]
    ELSE RemonteeLoop(vv, cc, yy, i - 1,
             <<RatDiv(RatSub(yy[i + 1], RatMul(cc[i + 1], xx[1])), vv[i + 1])>> \o xx,
             cnt + 3)

\* remontee whose last unknown is y[n - 1], not divided by v[n - 1]
RemonteeNoDiv(vv, cc, yy) ==
    IF Len(yy) = 0
    THEN [err |-> "IndexError", x |-> <<>>, ops |-> 0]
    ELSE IF Len(yy) > Len(vv)
    THEN [err |-> "IndexError", x |-> <<>>, ops |-> 0]
    ELSE IF IsZero(vv[Len(yy)])
    THEN [err |-> "ZeroDivisionError", x |-> <<>>, ops |-> 0]
    ELSE RemonteeLoop(vv, cc, yy, Len(yy) - 2, <<yy[Len(yy)]>>, 0)

Remontee(vv, cc, yy) ==
    IF Len(yy) = 0                          \* y[n - 1] is y[-1] of an empty list
    THEN [err |-> "IndexError", x |-> <<>>, ops |-> 0]
    ELSE IF Len(yy) > Len(vv)               \* v[n - 1]
    THEN [err |-> "IndexError", x |-> <<>>, ops |-> 0]
    ELSE IF IsZero(vv[Len(yy)])             \* y[n - 1] / v[n - 1]
    THEN [err |-> "ZeroDivisionError", x |-> <<>>, ops |-> 0]
    ELSE RemonteeLoop(vv, cc, yy, Len(yy) - 2,
                      <<RatDiv(yy[Len(yy)], vv[Len(yy)])>>, 1)

---------------------------------------------------------------------------
(* The calls  [l, v] = lutri(a, b, c); y = descente(l, z);                 *)
(* x = remontee(v, c, y)  made in this order by every caller (lines 83-85, *)
(* 152-154), on arguments drawn from bounded sets.                         *)

MaxN == 3
DiagVals == {-1, 0, 1}
OffVals == {-1, 2}
RhsVals == {0, 1}
\* the fixture of main(), lines 345-347
FixtureB == <<-4, -3, -2, 2>>
FixtureA == <<-2, 5, -1, 4, -2>>
FixtureC == <<1, 2, -1, 1>>
\* arguments whose lengths break the n / n - 1 contract of the docstrings
MismatchN == {1, 2}
MismatchVals == {1, 2}
LenDelta == {-1, 0, 1}

Max0(i) == IF i < 0 THEN 0 ELSE i

\* pc names the call about to be made, or, once err # "none", the call that
\* raised; ops counts the arithmetic operations of the last call made.
InitLU ==
    /\ prog = "lu"
    /\ pc = "lutri"
    /\ err = "none"
    /\ \/ \E len \in 1..MaxN :
            /\ a \in [1..len -> DiagVals]
            /\ b \in [1..(len - 1) -> OffVals]
            /\ c \in [1..(len - 1) -> OffVals]
            /\ z \in [1..len -> RhsVals]
       \/ /\ a = FixtureA /\ b = FixtureB /\ c = FixtureC
          /\ z \in [1..5 -> RhsVals]
       \/ \E len \in MismatchN, db \in LenDelta, dc \in LenDelta, dz \in LenDelta :
            /\ <<db, dc, dz>> # <<0, 0, 0>>
            /\ a \in [1..len -> MismatchVals]
            /\ b \in [1..Max0(len - 1 + db) -> MismatchVals]
            /\ c \in [1..Max0(len - 1 + dc) -> MismatchVals]
            /\ z \in [1..(len + dz) -> MismatchVals]
    /\ l = <<>> /\ v = <<>> /\ y = <<>> /\ x = <<>>
    /\ ops = 0
    /\ LoopIdle /\ BisectIdle /\ AsmIdle

CallLutri ==
    /\ prog = "lu" /\ pc = "lutri" /\ err = "none"
    /\ LET r == Lutri(IntSeq(a), IntSeq(b), IntSeq(c))
       IN  /\ l' = r.l /\ v' = r.v
           /\ err' = r.err
           /\ ops' = r.ops
           /\ pc' = IF r.err = "none" THEN "descente" ELSE "lutri"
    /\ UNCHANGED <<prog, a, b, c, z, y, x, loopVars, bisectVars, asmVars>>

CallDescente ==
    /\ prog = "lu" /\ pc = "descente" /\ err = "none"
    /\ LET r == Descente(l, IntSeq(z))
       IN  /\ y' = r.y
           /\ err' = r.err
           /\ ops' = r.ops
           /\ pc' = IF r.err = "none" THEN "remontee" ELSE "descente"
    /\ UNCHANGED <<prog, a, b, c, z, l, v, x, loopVars, bisectVars, asmVars>>

CallRemontee ==
    /\ prog = "lu" /\ pc = "remontee" /\ err = "none"
    /\ LET r == Remontee(v, IntSeq(c), y)
       IN  /\ x' = r.x
           /\ err' = r.err
           /\ ops' = r.ops
           /\ pc' = IF r.err = "none" THEN "done" ELSE "remontee"
    /\ UNCHANGED <<prog, a, b, c, z, l, v, y, loopVars, bisectVars, asmVars>>

NextLU == CallLutri \/ CallDescente \/ CallRemontee

SpecLU == InitLU /\ [][NextLU]_vars

---------------------------------------------------------------------------
(* tridiag(diags) and A.dot(u), lines 159-162 and 174: row i of the        *)
(* product of the tridiagonal matrix (b, a, c) with the vector u.          *)

TriRow(bb, aa, cc, uu, i) ==
    RatAdd(RatAdd(IF i > 1 THEN RatMul(bb[i - 1], uu[i - 1]) ELSE Zero,
                  RatMul(aa[i], uu[i])),
           IF i < Len(aa) THEN RatMul(cc[i], uu[i + 1]) ELSE Zero)

TriDot(bb, aa, cc, uu) == [i \in 1..Len(aa) |-> TriRow(bb, aa, cc, uu, i)]

---------------------------------------------------------------------------
(* Properties of lutri, descente, remontee.                                *)

ContractShape == Len(b) = Len(a) - 1 /\ Len(c) = Len(a) - 1 /\ Len(z) = Len(a)

\* the k-th leading principal minor of the tridiagonal matrix (b, a, c),
\* by the three-term recurrence; the pivot v[k-1] is Minor(k) / Minor(k-1)
RECURSIVE Minor(_)
Minor(j) ==
    IF j = 0 THEN 1
    ELSE IF j = 1 THEN a[1]
    ELSE a[j] * Minor(j - 1) - b[j - 1] * c[j - 1] * Minor(j - 2)

Nonsingular == Minor(Len(a)) # 0
PivotsNonzeroUpTo(upto) == \A j \in 1..upto : Minor(j) # 0

LUFinished == prog = "lu" /\ (pc = "done" \/ err # "none")
LutriReturned == prog = "lu" /\ (pc # "lutri")

\* C1 as stated: for every nonsingular tridiagonal matrix, zero pivots
\* included, lutri, descente, remontee return x with A.x = z.
C1_SolvesEveryNonsingular ==
    (LUFinished /\ ContractShape /\ Nonsingular)
        => /\ pc = "done"
           /\ Len(x) = Len(a)
           /\ TriDot(IntSeq(b), IntSeq(a), IntSeq(c), x) = IntSeq(z)

\* C1 amended: when every pivot v[0..n-1] of the elimination without
\* pivoting is nonzero (every leading principal minor is nonzero), the three
\* calls return x of length n with A.x = z exactly; when some pivot is zero
\* the calls end in ZeroDivisionError, also for a nonsingular matrix.
C1_SolvesWhenPivotsNonzero ==
    (LUFinished /\ ContractShape)
        => IF PivotsNonzeroUpTo(Len(a))
           THEN /\ pc = "done"
                /\ Len(x) = Len(a)
                /\ TriDot(IntSeq(b), IntSeq(a), IntSeq(c), x) = IntSeq(z)
           ELSE err = "ZeroDivisionError"

C1_Witness ==
    /\ prog = "lu" /\ pc = "done" /\ ContractShape
    /\ Len(a) = 3
    /\ \E i \in 1..3 : x[i][2] > 1

\* C7: when the pivots v[0..n-2] are nonzero, lutri returns l of length
\* n - 1 and v of length n with v[0] = a[0], l[i-1] * v[i-1] = b[i-1] and
\* v[i] + l[i-1] * c[i-1] = a[i]; the fixture of main() gives
\* l = [2, -1, -2, 1] and v = [-2, 3, 1, 2, -3].
C7_LutriFactors ==
    (prog = "lu" /\ ContractShape /\ (pc # "lutri" \/ err # "none")
       /\ PivotsNonzeroUpTo(Len(a) - 1))
        => /\ LutriReturned
           /\ Len(l) = Len(a) - 1
           /\ Len(v) = Len(a)
           /\ v[1] = Num(a[1])
           /\ \A i \in 1..(Len(a) - 1) :
                /\ RatMul(l[i], v[i]) = Num(b[i])
                /\ RatAdd(v[i + 1], RatMul(l[i], Num(c[i]))) = Num(a[i + 1])
           /\ (a = FixtureA /\ b = FixtureB /\ c = FixtureC)
                => /\ l = IntSeq(<<2, -1, -2, 1>>)
                   /\ v = IntSeq(<<-2, 3, 1, 2, -3>>)

C7_Witness ==
    /\ prog = "lu" /\ pc = "descente"
    /\ a = FixtureA /\ b = FixtureB /\ c = FixtureC
    /\ l = IntSeq(<<2, -1, -2, 1>>)

\* C9: a call of lutri, descente or remontee whose argument lengths break
\* the n / n - 1 contract fails before any arithmetic, and never returns.
C9_FailFastOnBadLengths ==
    /\ (prog = "lu" /\ (pc # "lutri" \/ err # "none")
          /\ (Len(b) # Len(a) - 1 \/ Len(c) # Len(a) - 1))
        => (pc = "lutri" /\ err # "none" /\ ops = 0)
    /\ (prog = "lu" /\ (pc \in {"remontee", "done"} \/ (pc = "descente" /\ err # "none"))
          /\ Len(l) # Len(z) - 1)
        => (pc = "descente" /\ err # "none" /\ ops = 0)
    /\ (prog = "lu" /\ (pc = "done" \/ (pc = "remontee" /\ err # "none"))
          /\ (Len(v) # Len(y) \/ Len(c) # Len(y) - 1))
        => (pc = "remontee" /\ err # "none" /\ ops = 0)

---------------------------------------------------------------------------
(* calcul_uk0(mu), lines 165-191, and calcul_uk0_newton(mu), lines 287-314.*)
(* The grid has n = 1000 points, so the iterate and the two residuals are  *)
(* followed by what the loop test reads of them: whether a norm is below   *)
(* its tolerance, and whether a value is finite.                           *)

Cap == 200
CapNewton == 50
MuVals == {0, 1, 5, 7}
Loops == {"calcul_uk0", "calcul_uk0_newton"}

CapOf(f) == IF f = "calcul_uk0" THEN Cap ELSE CapNewton

\* norm(ecart1, inf) < mu1 and norm(ecart2, inf) < mu2; a comparison with
\* inf or NaN is False
Tol == ecart1 = "below" /\ ecart2 = "below"

\* the loop test with k >= cap for k > cap
LoopExitAtCap(kk, cap, tol) == kk >= cap \/ tol

\* the disjunction the while loop negates, lines 178-184 and 300-306
LoopExit(kk, cap, tol) == kk > cap \/ tol

\* a counter stepping by 2
KSkip(kk) == kk + 2

\* k += 1, lines 189 and 312
KNext(kk) == kk + 1

\* solve_debye_huckel(n, mu) at line 171: z is zero but for
\* z[0] = mu * h * (h - 2), so mu = 0 gives u = 0, A.dot(u) = 0; for an
\* integer mu # 0, norm(A.dot(u)) is about 0.0199 * |mu| and norm(u) is at
\* least norm(z) / norm(A): both above the tolerances
InitialResidual(mm) == IF mm = 0 THEN "below" ELSE "above"

\* what one step (solve_poisson_boltzmann, lines 133-156, or
\* solve_poisson_boltzmann_newton, lines 257-284) can give from iterate uu:
\* sinh may overflow on a finite iterate; inf and NaN propagate through
\* sinh, g, descente, remontee, A.dot and the subtractions
StepResults(uu) ==
    IF uu = "nonfinite"
    THEN {[u |-> "nonfinite", e1 |-> "nonfinite", e2 |-> "nonfinite"]}
    ELSE {[u |-> "nonfinite", e1 |-> "nonfinite", e2 |-> "nonfinite"]}
         \cup [u : {"finite"}, e1 : {"below", "above"}, e2 : {"below", "above"}]

InitLoop ==
    /\ prog \in Loops
    /\ pc = "start"
    /\ err = "none"
    /\ mu \in MuVals
    /\ k = 0 /\ u = "finite" /\ ecart1 = "above" /\ ecart2 = "above"
    /\ xBound = FALSE
    /\ LUIdle /\ BisectIdle /\ AsmIdle

\* lines 166-177 and 288-299: the initial iterate, the residuals, k = 0;
\* the grid of solve_debye_huckel is dropped ("_"), x stays unassigned
Setup ==
    /\ prog \in Loops /\ pc = "start"
    /\ u' = "finite"
    /\ ecart1' = InitialResidual(mu)
    /\ ecart2' = InitialResidual(mu)
    /\ k' = 0
    /\ pc' = "test"
    /\ UNCHANGED <<prog, err, mu, xBound, luVars, bisectVars, asmVars>>

\* the while test, lines 178-184 and 300-306
Test ==
    /\ prog \in Loops /\ pc = "test"
    /\ pc' = IF LoopExit(k, CapOf(prog), Tol) THEN "return" ELSE "body"
    /\ UNCHANGED <<prog, err, loopVars, luVars, bisectVars, asmVars>>

\* the loop body, lines 185-189 and 307-312
Body ==
    /\ prog \in Loops /\ pc = "body"
    /\ \E r \in StepResults(u) :
          /\ u' = r.u
          /\ ecart1' = r.e1
          /\ ecart2' = r.e2
    /\ xBound' = TRUE
    /\ k' = KNext(k)
    /\ pc' = "test"
    /\ UNCHANGED <<prog, err, mu, luVars, bisectVars, asmVars>>

\* return x, u, k, lines 191 and 314: reading the unassigned local x raises
Return ==
    /\ prog \in Loops /\ pc = "return" /\ err = "none"
    /\ IF xBound
       THEN pc' = "returned" /\ err' = err
       ELSE pc' = pc /\ err' = "UnboundLocalError"
    /\ UNCHANGED <<prog, loopVars, luVars, bisectVars, asmVars>>

NextLoop == Setup \/ Test \/ Body \/ Return

SpecLoop == InitLoop /\ [][NextLoop]_vars

\* a sequential call keeps running until it returns or raises
FairSpecLoop == SpecLoop /\ WF_vars(NextLoop)

---------------------------------------------------------------------------
(* Properties of calcul_uk0 and calcul_uk0_newton.                         *)

LoopEnded == pc = "returned" \/ (pc = "return" /\ err # "none")

\* C2: the loop leaves at the first test where k > cap or both tolerances
\* hold, k grows by exactly 1 per pass, the call ends; at the end k <= cap
\* implies both tolerances held at the final test, a final test without
\* them has k = cap + 1, and k never exceeds cap + 1.
C2_LoopExits ==
    /\ [](prog \in Loops =>
            /\ k <= CapOf(prog) + 1
            /\ (pc = "return" \/ pc = "returned") =>
                  /\ k <= CapOf(prog) => Tol
                  /\ ~Tol => k = CapOf(prog) + 1)
    /\ [][(prog \in Loops /\ pc = "test") =>
            (pc' = "return" <=> (k > CapOf(prog) \/ Tol))]_vars
    /\ [][(prog \in Loops /\ pc = "body") => k' = k + 1]_vars
    /\ [][(prog \in Loops /\ pc # "body") => k' = k]_vars
    /\ (prog \in Loops => <>LoopEnded)

C2_Witness ==
    /\ prog = "calcul_uk0_newton" /\ pc = "returned"
    /\ k = CapNewton + 1 /\ ~Tol

\* C3 as stated: for every mu the call returns (x, u, k) without raising,
\* also when the loop body runs zero times (mu = 0).
C3_ReturnsTriple == prog \in Loops => err = "none"

\* C5 as stated: the k returned by calcul_uk0 is at most 200.
C5_SaturatesAt200 == (prog = "calcul_uk0" /\ pc = "returned") => k <= Cap

\* C5 amended: the k returned by calcul_uk0 is at most 201, and it is 201
\* whenever the dual tolerance does not hold at the final test.
C5_SaturatesAt201 ==
    (prog = "calcul_uk0" /\ pc = "returned")
        => /\ k <= Cap + 1
           /\ ~Tol => k = Cap + 1

C5_Witness ==
    /\ prog = "calcul_uk0" /\ pc = "returned"
    /\ k = Cap + 1 /\ u = "nonfinite"

\* C6: calcul_uk0 never runs a further solve_poisson_boltzmann step on an
\* iterate that holds inf or NaN.
C6_StopsOnNonFinite == prog = "calcul_uk0" => ~(pc = "body" /\ u = "nonfinite")

---------------------------------------------------------------------------
(* find_convergence_mu(), lines 233-246.  calcul_uk0(mu=m) is the oracle:  *)
(* its answer k is drawn from OracleK, freely or, for a monotone oracle,   *)
(* with k > 200 exactly when m is above the threshold.                     *)
(*                                                                         *)
(* debut, fin and m are dyadic: the integer d stands for the float         *)
(* d * Fin0 / 2^Bits, which (debut + fin) / 2 and fin - debut compute      *)
(* without rounding.                                                       *)

Bits == 21
Grid == 2 ^ Bits
\* debut = 0 and fin = 7, lines 234-235
Debut0 == 0
Fin0 == 7
\* the literal 10e-6 of line 237, as 1 / EcartStopInv
EcartStopInv == 100000
\* the 200 of "if k > 200", line 241
BisectCap == 200
OracleK == {200, 201}
\* thresholds t = <<p, q>> = p / q in [0, 7]
Thresholds == {<<0, 1>>, <<1, 3>>, <<7, 2>>, <<24, 5>>, <<7, 1>>}

\* ecart > 10e-6, line 237, for ecart = w * Fin0 / Grid
EcartAboveStop(w) == w > Grid \div (Fin0 * EcartStopInv)

\* m = (debut + fin) / 2, line 238
Midpoint(d, f) == (d + f) \div 2

\* whether the dyadic mm is above, or below, the threshold t = <<p, q>>
Above(mm, t) == mm * Fin0 * t[2] > t[1] * Grid
Below(mm, t) == mm * Fin0 * t[2] < t[1] * Grid

\* the two branches of lines 241-244 taken for one another
NewBracketSwapped(d, f, mm, kk) == IF kk > BisectCap THEN <<mm, f>> ELSE <<d, mm>>

\* lines 241-244: the bracket after the oracle answered kk at midpoint mm
NewBracket(d, f, mm, kk) == IF kk > BisectCap THEN <<d, mm>> ELSE <<mm, f>>

InitBisect ==
    /\ prog = "find_convergence_mu"
    /\ pc = "loop"
    /\ err = "none"
    /\ debut = Debut0 /\ fin = Grid
    /\ m = 0                       \* m is unassigned until the first pass
    /\ passes = 0
    /\ seuil \in ({TRUE} \X Thresholds) \cup {<<FALSE, <<0, 1>>>>}
    /\ k = 0 /\ mu = 0 /\ u = "finite"
    /\ ecart1 = "above" /\ ecart2 = "above" /\ xBound = FALSE
    /\ LUIdle /\ AsmIdle

\* one pass of the while loop, lines 237-245
BisectPass ==
    /\ prog = "find_convergence_mu" /\ pc = "loop"
    /\ EcartAboveStop(fin - debut)
    /\ LET mm == Midpoint(debut, fin)
       IN  \E kk \in OracleK :
             /\ seuil[1] => (kk > BisectCap <=> Above(mm, seuil[2]))
             /\ m' = mm
             /\ k' = kk
             /\ debut' = NewBracket(debut, fin, mm, kk)[1]
             /\ fin' = NewBracket(debut, fin, mm, kk)[2]
    /\ passes' = passes + 1
    /\ UNCHANGED <<prog, pc, err, seuil, mu, u, ecart1, ecart2, xBound, luVars, asmVars>>

\* the loop ends and m is returned, lines 237 and 246
BisectReturn ==
    /\ prog = "find_convergence_mu" /\ pc = "loop"
    /\ ~EcartAboveStop(fin - debut)
    /\ pc' = "returned"
    /\ UNCHANGED <<prog, err, loopVars, luVars, bisectVars, asmVars>>

NextBisect == BisectPass \/ BisectReturn

SpecBisect == InitBisect /\ [][NextBisect]_vars

---------------------------------------------------------------------------
(* Properties of find_convergence_mu.                                      *)

\* |mm - t| <= 10e-6 for the dyadic mm and t = <<p, q>>
Within(mm, t) ==
    Abs(mm * Fin0 * t[2] - t[1] * Grid) <= (Grid * t[2]) \div EcartStopInv

\* C4: whatever the oracle answers, 0 <= debut <= fin <= 7 at every step
\* and the search returns after exactly 20 halvings (every midpoint being
\* computed exactly); with a monotone oracle of threshold t in [0, 7],
\* debut <= t <= fin at every step and the returned m is within 1e-5 of t.
C4_Bisection ==
    prog = "find_convergence_mu" =>
        /\ Debut0 <= debut /\ debut <= fin /\ fin <= Grid
        /\ passes <= 20
        /\ pc = "returned" => passes = 20
        /\ (pc = "loop" /\ EcartAboveStop(fin - debut)) => (debut + fin) % 2 = 0
        /\ seuil[1] => (~Above(debut, seuil[2]) /\ ~Below(fin, seuil[2]))
        /\ (seuil[1] /\ pc = "returned") => Within(m, seuil[2])

C4_Witness ==
    /\ prog = "find_convergence_mu" /\ pc = "returned"
    /\ seuil = <<TRUE, <<24, 5>>>>
    /\ passes = 20
    /\ debut < fin /\ m = debut

---------------------------------------------------------------------------
(* The assemblers.  h = 10 / n; Python row i is at xi = 1 + i * h.         *)

H(nn) == Rat(10, nn)
Xi(nn, i) == RatAdd(Num(1), RatMul(Num(i), H(nn)))
\* 1 - h / (2 * xi) and 1 + h / (2 * xi)
Lower(nn, i) == RatSub(Num(1), RatDiv(H(nn), RatMul(Num(2), Xi(nn, i))))
Upper(nn, i) == RatAdd(Num(1), RatDiv(H(nn), RatMul(Num(2), Xi(nn, i))))
\* -(2 + h ** 2)
Diag(nn) == RatNeg(RatAdd(Num(2), RatMul(H(nn), H(nn))))

\* np.sinh and np.cosh, exact at 0 only: the iterates drawn are zero vectors
Sinh(t) == CASE IsZero(t) -> Zero
Cosh(t) == CASE IsZero(t) -> Num(1)
\* g = lambda x: np.sinh(x) - x, line 134
G(t) == RatSub(Sinh(t), t)

\* the three calls of lines 83-85 and 152-154
LUSolve(bb, aa, cc, zz) ==
    LET f == Lutri(aa, bb, cc)
        d == Descente(f.l, zz)
        r == Remontee(f.v, cc, d.y)
    IN  IF f.err # "none" THEN [err |-> f.err, l |-> <<>>, v |-> <<>>, y |-> <<>>, u |-> <<>>]
        ELSE IF d.err # "none" THEN [err |-> d.err, l |-> f.l, v |-> f.v, y |-> <<>>, u |-> <<>>]
        ELSE [err |-> r.err, l |-> f.l, v |-> f.v, y |-> d.y, u |-> r.x]

(* solve_debye_huckel(n, mu), lines 61-87: the lists after lines 67-81.    *)
DH_x(nn) == [j \in 1..nn |-> IF j = 1 THEN Num(1) ELSE Xi(nn, j - 1)]
DH_b(nn) == [j \in 1..(nn - 1) |-> Lower(nn, j)]
DH_c(nn) == [j \in 1..(nn - 1) |-> IF j = 1 THEN Num(2) ELSE Upper(nn, j - 1)]
DH_a(nn) == [j \in 1..nn |-> Diag(nn)]
DH_z(nn, mm) ==
    [j \in 1..nn |-> IF j = 1 THEN RatMul(RatMul(Num(mm), H(nn)), RatSub(H(nn), Num(2)))
                     ELSE Zero]

(* solve_poisson_boltzmann(u, n, mu), lines 125-156: after lines 133-150.  *)
PB_x(nn) == [j \in 1..nn |-> IF j = 1 THEN Num(1) ELSE Xi(nn, j - 1)]
PB_b(nn) == [j \in 1..(nn - 1) |-> Lower(nn, j)]
PB_c(nn) == [j \in 1..(nn - 1) |-> IF j = 1 THEN Num(2) ELSE Upper(nn, j - 1)]
PB_a(nn) == [j \in 1..nn |-> Diag(nn)]
PB_z(uu, nn, mm) ==
    [j \in 1..nn |->
        IF j = 1
        THEN RatAdd(RatMul(RatMul(H(nn), H(nn)), G(uu[1])),
                    RatMul(RatMul(Num(mm), H(nn)), RatSub(H(nn), Num(2))))
        ELSE RatMul(RatMul(H(nn), H(nn)), G(uu[j]))]

(* solve_poisson_boltzmann_newton(u, n, mu), lines 249-284: after lines    *)
(* 257-276.  c[0] keeps the 0 of line 260: no line assigns it.             *)
NW_x(nn) == [j \in 1..nn |-> IF j = 1 THEN Num(1) ELSE Xi(nn, j - 1)]
NW_b(nn) == [j \in 1..(nn - 1) |-> Lower(nn, j)]
NW_c(nn) == [j \in 1..(nn - 1) |-> IF j = 1 THEN Zero ELSE Upper(nn, j - 1)]
NW_a(uu, nn) ==
    [j \in 1..nn |-> RatSub(Num(-2), RatMul(RatMul(H(nn), H(nn)), Cosh(uu[j])))]
NW_F(uu, nn, mm) ==
    [j \in 1..nn |->
        LET hs == RatMul(RatMul(H(nn), H(nn)), Sinh(uu[j]))
            own == RatSub(RatMul(Num(-2), uu[j]), hs)
        IN  IF j = 1
            THEN RatAdd(RatAdd(own, RatMul(Num(2), uu[2])),
                        RatMul(RatMul(Num(mm), H(nn)), RatSub(Num(2), H(nn))))
            ELSE IF j < nn
            THEN RatAdd(RatAdd(RatMul(Lower(nn, j - 1), uu[j - 1]), own),
                        RatMul(Upper(nn, j - 1), uu[j + 1]))
            ELSE RatAdd(RatMul(Lower(nn, nn - 1), uu[nn - 1]), own)]

\* the grids on which the exact pivots and solutions fit TLC's integers
GridSizes == {1, 2, 3}
AsmMuVals == -3..7
Assemblers == {"solve_debye_huckel", "solve_poisson_boltzmann",
               "solve_poisson_boltzmann_newton"}

\* at the call: n and mu are the arguments and u the iterate passed in
InitAsm ==
    /\ prog \in Assemblers
    /\ pc = "call"
    /\ err = "none"
    /\ n \in GridSizes
    /\ mu \in AsmMuVals
    /\ u = [j \in 1..n |-> Zero]
    /\ a = <<>> /\ b = <<>> /\ c = <<>> /\ z = <<>>
    /\ l = <<>> /\ v = <<>> /\ y = <<>> /\ x = <<>> /\ ops = 0
    /\ F = <<>>
    /\ k = 0 /\ ecart1 = "above" /\ ecart2 = "above" /\ xBound = FALSE
    /\ BisectIdle

\* lines 67-87; c[0] = 2 at line 71 raises IndexError on the empty c of n = 1
SolveDebyeHuckel ==
    /\ prog = "solve_debye_huckel" /\ pc = "call" /\ err = "none"
    /\ IF n = 1
       THEN /\ err' = "IndexError"
            /\ x' = <<Num(1)>> /\ a' = DH_a(n) /\ z' = <<Zero>>
            /\ UNCHANGED <<pc, b, c, l, v, y, u>>
       ELSE LET r == LUSolve(DH_b(n), DH_a(n), DH_c(n), DH_z(n, mu))
            IN  /\ x' = DH_x(n) /\ b' = DH_b(n) /\ a' = DH_a(n)
                /\ c' = DH_c(n) /\ z' = DH_z(n, mu)
                /\ l' = r.l /\ v' = r.v /\ y' = r.y /\ u' = r.u
                /\ err' = r.err
                /\ pc' = IF r.err = "none" THEN "returned" ELSE pc
    /\ UNCHANGED <<prog, mu, k, ecart1, ecart2, xBound, ops, bisectVars, asmVars>>

\* lines 133-156; line 138 raises IndexError on the empty c of n = 1
SolvePoissonBoltzmann ==
    /\ prog = "solve_poisson_boltzmann" /\ pc = "call" /\ err = "none"
    /\ IF n = 1
       THEN /\ err' = "IndexError"
            /\ x' = <<Num(1)>> /\ a' = PB_a(n) /\ z' = <<Zero>>
            /\ UNCHANGED <<pc, b, c, l, v, y, u>>
       ELSE LET r == LUSolve(PB_b(n), PB_a(n), PB_c(n), PB_z(u, n, mu))
            IN  /\ x' = PB_x(n) /\ b' = PB_b(n) /\ a' = PB_a(n)
                /\ c' = PB_c(n) /\ z' = PB_z(u, n, mu)
                /\ l' = r.l /\ v' = r.v /\ y' = r.y /\ u' = r.u
                /\ err' = r.err
                /\ pc' = IF r.err = "none" THEN "returned" ELSE pc
    /\ UNCHANGED <<prog, mu, k, ecart1, ecart2, xBound, ops, bisectVars, asmVars>>

\* lines 257-284; u[1] at line 261 raises IndexError for n = 1;
\* inv_Jk.dot(F) is the solution w of J.w = F, J = tridiag([b, a, c])
SolvePoissonBoltzmannNewton ==
    /\ prog = "solve_poisson_boltzmann_newton" /\ pc = "call" /\ err = "none"
    /\ IF n = 1
       THEN /\ err' = "IndexError"
            /\ x' = <<Num(1)>> /\ a' = NW_a(u, n) /\ F' = <<Zero>>
            /\ UNCHANGED <<pc, b, c, l, v, y, u>>
       ELSE LET r == LUSolve(NW_b(n), NW_a(u, n), NW_c(n), NW_F(u, n, mu))
            IN  /\ x' = NW_x(n) /\ b' = NW_b(n) /\ a' = NW_a(u, n)
                /\ c' = NW_c(n) /\ F' = NW_F(u, n, mu)
                /\ u' = [j \in 1..n |-> RatSub(u[j], r.u[j])]
                /\ err' = IF r.err = "none" THEN "none" ELSE "LinAlgError"
                /\ pc' = IF r.err = "none" THEN "returned" ELSE pc
                /\ UNCHANGED <<l, v, y>>
    /\ UNCHANGED <<prog, mu, k, ecart1, ecart2, xBound, ops, z, n, bisectVars>>

NextAsm == SolveDebyeHuckel \/ SolvePoissonBoltzmann \/ SolvePoissonBoltzmannNewton

SpecAsm == InitAsm /\ [][NextAsm]_vars

---------------------------------------------------------------------------
(* Properties of the assemblers.                                           *)

\* C8: for every n >= 1, n = 1 and n = 2 included, solve_debye_huckel(n, mu)
\* completes without error and returns a grid x of length n with
\* x[i] = 1 + i * h, h = 10 / n, and diagonals b, a, c of lengths
\* n - 1, n, n - 1.
C8_DebyeHuckelGrid ==
    (prog = "solve_debye_huckel" /\ (pc # "call" \/ err # "none"))
        => /\ err = "none"
           /\ Len(x) = n
           /\ \A i \in 0..(n - 1) : x[i + 1] = RatAdd(Num(1), RatMul(Num(i), Rat(10, n)))
           /\ Len(b) = n - 1 /\ Len(a) = n /\ Len(c) = n - 1

\* C10: for n >= 2 the b and c of solve_poisson_boltzmann_newton equal,
\* entry for entry, those of solve_debye_huckel and solve_poisson_boltzmann:
\* c[0] = 2, c[i] = 1 + h / (2 x_i) for i in 1..n-2 and
\* b[i-1] = 1 - h / (2 x_i) for i in 1..n-1.
C10_SameOffDiagonals ==
    (prog = "solve_poisson_boltzmann_newton" /\ pc = "returned" /\ n >= 2)
        => /\ b = DH_b(n) /\ b = PB_b(n)
           /\ c = DH_c(n) /\ c = PB_c(n)
           /\ c[1] = Num(2)
           /\ \A i \in 1..(n - 2) : c[i + 1] = Upper(n, i)
           /\ \A i \in 1..(n - 1) : b[i] = Lower(n, i)

\* solve_debye_huckel(2, 1) computed exactly: u = [-2430/4367, -105/8734]
DH_Reference ==
    (prog = "solve_debye_huckel" /\ pc = "returned" /\ n = 2 /\ mu = 1)
        => /\ u = <<Rat(-2430, 4367), Rat(-105, 8734)>>
           /\ x = <<Num(1), Num(6)>>

===========================================================================
